---- MODULE Spec2Model ----
(***************************************************************************)
(* A model of enhanced_visualization_dashboard.py: the Streamlit script    *)
(* that loads an HR table, detects four semantic columns by name, filters  *)
(* the table, aggregates it for four charts and displays it.               *)
(*                                                                         *)
(* Strings are sequences of one-character strings, so that str.lower(),    *)
(* the substring test `in`, str.endswith() and date parsing are computed   *)
(* character by character.  A table (DataFrame) is a record                *)
(*   [columns : Seq(name), rows : Seq([idx : Nat, cells : Seq(cell)])]     *)
(* and a cell is a record [t, v, y]: t is the kind of value ("str", "num", *)
(* "null", "dt", "nat"), v its characters and y the year of a datetime.    *)
(***************************************************************************)
EXTENDS Integers, Sequences, FiniteSets, TLC

VARIABLES
    pc,               \* position of the running function
    call,             \* "main", or the function that is called directly
    uploaded_file,    \* st.sidebar.file_uploader(...): None or a file
    df,               \* main's df / the table argument of a direct call
    arg_df,           \* the table argument of a direct call, as passed in
    col,              \* the column argument of a direct call
    dept_col,         \* main: detect_department_column(df)
    job_col,          \* main: detect_job_family_column(df)
    emp_group_col,    \* main: detect_employee_group_column(df)
    joining_date_col, \* main: detect_joining_date_column(df)
    selected_depts,   \* main: the department multiselect's selection
    selected_jobs,    \* main: the job-family multiselect's selection
    selected_groups,  \* main: the employee-group multiselect's selection
    filters_applied,  \* main: filters_applied
    page,             \* the widgets written to the page so far, in order
    failed_libs,      \* the chart functions in whose try block a library call raised
    ret,              \* the value returned by a direct call
    raised            \* the exception that escaped to the caller, or NoError

vars ==
    <<pc, call, uploaded_file, df, arg_df, col, dept_col, job_col, emp_group_col,
      joining_date_col, selected_depts, selected_jobs, selected_groups,
      filters_applied, page, failed_libs, ret, raised>>

-----------------------------------------------------------------------------
(* Bounds of the model.                                                    *)

\* Columns of a table handed to a detector.
MaxCols == 3

-----------------------------------------------------------------------------
(* Strings: str.lower() and the substring test.                            *)

UpperChars ==
    <<"A", "B", "C", "D", "E", "F", "G", "H", "I", "J", "K", "L", "M", "N", "O", "P", "Q", "R",
      "S", "T", "U", "V", "W", "X", "Y", "Z">>
LowerChars ==
    <<"a", "b", "c", "d", "e", "f", "g", "h", "i", "j", "k", "l", "m", "n", "o", "p", "q", "r",
      "s", "t", "u", "v", "w", "x", "y", "z">>

\* Python's None; no string is equal to it (a string holds single characters).
None == <<"None">>

\* No exception escaped.
NoError == "NoError"

Min(S) == CHOOSE x \in S : \A y \in S : x <= y

\* One character of str.lower().
LowerChar(c) ==
    IF \E i \in 1..Len(UpperChars) : UpperChars[i] = c
    THEN LowerChars[CHOOSE i \in 1..Len(UpperChars) : UpperChars[i] = c]
    ELSE c

\* str(col).lower()
Lower(s) == [i \in 1..Len(s) |-> LowerChar(s[i])]

\* needle in hay (both strings)
Contains(hay, needle) ==
    \E i \in 0..(Len(hay) - Len(needle)) : SubSeq(hay, i + 1, i + Len(needle)) = needle

\* What main's variables hold while a function is called directly.
MainIdle ==
    /\ uploaded_file = None
    /\ dept_col = None /\ job_col = None /\ emp_group_col = None /\ joining_date_col = None
    /\ selected_depts = {} /\ selected_jobs = {} /\ selected_groups = {}
    /\ filters_applied = FALSE

mainVars ==
    <<uploaded_file, dept_col, job_col, emp_group_col, joining_date_col,
      selected_depts, selected_jobs, selected_groups, filters_applied>>

\* Column names the code names.
N_Department == <<"D", "e", "p", "a", "r", "t", "m", "e", "n", "t">>
N_OrganizationalUnit ==
    <<"O", "r", "g", "a", "n", "i", "z", "a", "t", "i", "o", "n", "a", "l", " ", "U", "n", "i",
      "t">>
N_JobFamily == <<"J", "o", "b", " ", "F", "a", "m", "i", "l", "y">>
N_EmployeeGroup == <<"E", "m", "p", "l", "o", "y", "e", "e", " ", "G", "r", "o", "u", "p">>
N_JoiningDate == <<"J", "o", "i", "n", "i", "n", "g", " ", "D", "a", "t", "e">>
N_PersNo == <<"P", "e", "r", "s", ".", "N", "o", ".">>
N_JoinYear == <<"J", "o", "i", "n", " ", "Y", "e", "a", "r">>
N_DEPT == <<"D", "E", "P", "T">>
N_department == <<"d", "e", "p", "a", "r", "t", "m", "e", "n", "t">>
N_JobRole == <<"J", "o", "b", " ", "R", "o", "l", "e">>
N_EmpGroup == <<"E", "m", "p", " ", "G", "r", "o", "u", "p">>
N_HireDate == <<"H", "i", "r", "e", " ", "D", "a", "t", "e">>
N_Name == <<"N", "a", "m", "e">>
N_BirthDate == <<"B", "i", "r", "t", "h", " ", "D", "a", "t", "e">>
N_JobUnit == <<"J", "o", "b", " ", "U", "n", "i", "t">>

\* Keywords of the detectors and of the pre-processing.
K_department == <<"d", "e", "p", "a", "r", "t", "m", "e", "n", "t">>
K_dept == <<"d", "e", "p", "t">>
K_org == <<"o", "r", "g">>
K_unit == <<"u", "n", "i", "t">>
K_job == <<"j", "o", "b">>
K_family == <<"f", "a", "m", "i", "l", "y">>
K_role == <<"r", "o", "l", "e">>
K_position == <<"p", "o", "s", "i", "t", "i", "o", "n">>
K_employee == <<"e", "m", "p", "l", "o", "y", "e", "e">>
K_group == <<"g", "r", "o", "u", "p">>
K_employeegroup == <<"e", "m", "p", "l", "o", "y", "e", "e", "g", "r", "o", "u", "p">>
K_emp_group == <<"e", "m", "p", " ", "g", "r", "o", "u", "p">>
K_join == <<"j", "o", "i", "n">>
K_hire == <<"h", "i", "r", "e">>
K_start == <<"s", "t", "a", "r", "t">>
K_date == <<"d", "a", "t", "e">>
K_Pers == <<"P", "e", "r", "s">>

-----------------------------------------------------------------------------
(* Tables.                                                                 *)

EmptyTable == [columns |-> <<>>, dtypes |-> <<>>, rows |-> <<>>]

\* name in df.columns
InColumns(name, d) == \E i \in 1..Len(d.columns) : d.columns[i] = name

\* The first of the columns at the positions hits, in column order; None if there
\* is none (for col in df.columns: if <test>: return col ... return None).
FirstColumn(d, hits) == IF hits = {} THEN None ELSE d.columns[Min(hits)]

\* The positions of the columns of d.
ColumnPositions(d) == 1..Len(d.columns)

\* The cells of a table.  isna() holds of Null (None / NaN) and of NaT.
Str(v) == [t |-> "str", v |-> v, y |-> 0]

Num(v) == [t |-> "num", v |-> v, y |-> 0]

Null == [t |-> "null", v |-> <<>>, y |-> 0]

\* The timestamp that prints as text, in the year year.
Timestamp(text, year) == [t |-> "dt", v |-> text, y |-> year]

NaT == [t |-> "nat", v |-> <<>>, y |-> 0]

IsNull(c) == c.t \in {"null", "nat"}

NotNull(c) == ~IsNull(c)

\* The position of column name in d (name is a column of d).
ColumnIndex(d, name) == CHOOSE i \in 1..Len(d.columns) : d.columns[i] = name

\* df[name]: the cells of a column, in row order.
Column(d, name) == [r \in 1..Len(d.rows) |-> d.rows[r].cells[ColumnIndex(d, name)]]

\* df[name].dtype
Dtype(d, name) == d.dtypes[ColumnIndex(d, name)]

\* The dtype a parser (read_csv, read_excel) gives a column holding cells: object
\* for text or mixed values and for a column of no rows, datetime64 for dates,
\* int64 for whole numbers and float64 for numbers with gaps and for an empty column.
InferDtype(cells) ==
    IF Len(cells) = 0 THEN "object"
    ELSE IF \A i \in 1..Len(cells) : cells[i].t = "null" THEN "float64"
    ELSE IF \A i \in 1..Len(cells) : cells[i].t \in {"dt", "nat"} THEN "datetime64"
    ELSE IF \A i \in 1..Len(cells) : cells[i].t = "num" THEN "int64"
    ELSE IF \A i \in 1..Len(cells) : cells[i].t \in {"num", "null"} THEN "float64"
    ELSE "object"

\* The table with the given column names and rows of cells, as a parser returns it:
\* a RangeIndex 0..n-1 and inferred dtypes.
Table(columns, cellRows) ==
    [columns |-> columns,
     dtypes |-> [c \in 1..Len(columns) |->
                    InferDtype([r \in 1..Len(cellRows) |-> cellRows[r][c]])],
     rows |-> [r \in 1..Len(cellRows) |-> [idx |-> r - 1, cells |-> cellRows[r]]]]

\* The table of one column.
OneColumn(name, cells) == Table(<<name>>, [r \in 1..Len(cells) |-> <<cells[r]>>])

\* df with column name set to cells of dtype dt: replaced in place when df has the
\* column, appended as the last column otherwise (df[name] = ...).
SetColumn(d, name, cells, dt) ==
    IF \E i \in 1..Len(d.columns) : d.columns[i] = name
    THEN [d EXCEPT
            !.dtypes[ColumnIndex(d, name)] = dt,
            !.rows = [r \in 1..Len(d.rows) |->
                        [d.rows[r] EXCEPT !.cells[ColumnIndex(d, name)] = cells[r]]]]
    ELSE [columns |-> Append(d.columns, name),
          dtypes |-> Append(d.dtypes, dt),
          rows |-> [r \in 1..Len(d.rows) |->
                        [d.rows[r] EXCEPT !.cells = Append(@, cells[r])]]]

\* What is written to the page: st.<w>(<about>), with the table it shows if any.
\* No figure: the None a chart function returns.
NoFig == [kind |-> "None", title |-> <<>>, data |-> <<>>]

Ev(w, about) == [w |-> w, about |-> about, data |-> EmptyTable, fig |-> NoFig, n |-> 0]

\* ... showing table d
EvData(w, about, d) == [w |-> w, about |-> about, data |-> d, fig |-> NoFig, n |-> 0]

\* ... showing figure fig
EvFig(w, about, fig) == [w |-> w, about |-> about, data |-> EmptyTable, fig |-> fig, n |-> 0]

\* ... showing the number n
EvN(w, about, n) == [w |-> w, about |-> about, data |-> EmptyTable, fig |-> NoFig, n |-> n]

\* A library call that raised: in function fn, at its at-th call of the kind.
Fail(fn, at) == [fn |-> fn, at |-> at]

\* str(n) of a natural number.
DigitChars == <<"0", "1", "2", "3", "4", "5", "6", "7", "8", "9">>

RECURSIVE IntStr(_)
IntStr(n) ==
    IF n < 10 THEN <<DigitChars[n + 1]>>
    ELSE IntStr(n \div 10) \o <<DigitChars[(n % 10) + 1]>>

\* The k-th value of the tables of the model as text ('A', 'B', ...) and as a whole
\* number; 0 stands for a missing value.
TextValue(k) == IF k = 0 THEN Null ELSE Str(<<UpperChars[k]>>)

NumberValue(k) == IF k = 0 THEN Null ELSE Num(IntStr(k))

\* The first day of a year, as a timestamp.
Dt(year) == Timestamp(IntStr(year) \o <<"-", "0", "1", "-", "0", "1">>, year)

-----------------------------------------------------------------------------
(* The column detectors.                                                   *)

DeptKeyword(c) ==
    LET col_str == Lower(c)
    IN  \/ Contains(col_str, K_department)
        \/ Contains(col_str, K_dept)
        \/ Contains(col_str, K_org)
        \/ Contains(col_str, K_unit)

JobKeyword(c) ==
    LET col_str == Lower(c)
    IN  /\ Contains(col_str, K_job)
        /\ \/ Contains(col_str, K_family)
           \/ Contains(col_str, K_role)
           \/ Contains(col_str, K_position)

GroupKeyword(c) ==
    LET col_str == Lower(c)
    IN  \/ (Contains(col_str, K_employee) /\ Contains(col_str, K_group))
        \/ Contains(col_str, K_employeegroup)
        \/ Contains(col_str, K_emp_group)

DateKeyword(c) ==
    LET col_str == Lower(c)
    IN  /\ \/ Contains(col_str, K_join)
           \/ Contains(col_str, K_hire)
           \/ Contains(col_str, K_start)
        /\ Contains(col_str, K_date)

\* Mutant: the keyword scan runs before the exact names are tried.
detect_department_column_scan_first(d) ==
    IF \E i \in ColumnPositions(d) : DeptKeyword(d.columns[i])
    THEN FirstColumn(d, {i \in ColumnPositions(d) : DeptKeyword(d.columns[i])})
    ELSE IF InColumns(N_Department, d) THEN N_Department
    ELSE IF InColumns(N_OrganizationalUnit, d) THEN N_OrganizationalUnit
    ELSE None

detect_department_column(d) ==
    IF InColumns(N_Department, d) THEN N_Department
    ELSE IF InColumns(N_OrganizationalUnit, d) THEN N_OrganizationalUnit
    ELSE FirstColumn(d, {i \in ColumnPositions(d) : DeptKeyword(d.columns[i])})

detect_job_family_column(d) ==
    IF InColumns(N_JobFamily, d) THEN N_JobFamily
    ELSE FirstColumn(d, {i \in ColumnPositions(d) : JobKeyword(d.columns[i])})

detect_employee_group_column(d) ==
    IF InColumns(N_EmployeeGroup, d) THEN N_EmployeeGroup
    ELSE FirstColumn(d, {i \in ColumnPositions(d) : GroupKeyword(d.columns[i])})

\* Mutant: the keywords are looked for in the name as written, not lower-cased.
detect_joining_date_column_no_lower(d) ==
    IF InColumns(N_JoiningDate, d) THEN N_JoiningDate
    ELSE FirstColumn(d, {i \in ColumnPositions(d) :
            /\ \E k \in {K_join, K_hire, K_start} : Contains(d.columns[i], k)
            /\ Contains(d.columns[i], K_date)})

detect_joining_date_column(d) ==
    IF InColumns(N_JoiningDate, d) THEN N_JoiningDate
    ELSE FirstColumn(d, {i \in ColumnPositions(d) : DateKeyword(d.columns[i])})

-----------------------------------------------------------------------------
(* Aggregation: value_counts and the percentages of the three count charts. *)

\* The number of rows of cells holding value v.
CountOf(cells, v) == Cardinality({i \in 1..Len(cells) : cells[i] = v})

\* Mutant: value_counts(dropna=False), the missing values counted as a category.
value_counts_keepna(cells) ==
    LET vals == {cells[i] : i \in 1..Len(cells)}
        first(v) == Min({i \in 1..Len(cells) : cells[i] = v})
        before(u, v) ==
            \/ CountOf(cells, u) > CountOf(cells, v)
            \/ CountOf(cells, u) = CountOf(cells, v) /\ first(u) < first(v)
        rank(v) == 1 + Cardinality({u \in vals : before(u, v)})
    IN  [k \in 1..Cardinality(vals) |->
            LET v == CHOOSE v \in vals : rank(v) = k
            IN  [value |-> v, Count |-> CountOf(cells, v)]]

\* df[col].value_counts().reset_index(): one row per distinct non-null value with
\* the number of rows holding it, the largest count first, equal counts in the
\* order in which the values first appear.
value_counts(cells) ==
    LET vals == {cells[i] : i \in {j \in 1..Len(cells) : ~IsNull(cells[j])}}
        first(v) == Min({i \in 1..Len(cells) : cells[i] = v})
        before(u, v) ==
            \/ CountOf(cells, u) > CountOf(cells, v)
            \/ CountOf(cells, u) = CountOf(cells, v) /\ first(u) < first(v)
        rank(v) == 1 + Cardinality({u \in vals : before(u, v)})
    IN  [k \in 1..Cardinality(vals) |->
            LET v == CHOOSE v \in vals : rank(v) = k
            IN  [value |-> v, Count |-> CountOf(cells, v)]]

\* counts['Count'].sum()
RECURSIVE SumCount(_)
SumCount(counts) ==
    IF Len(counts) = 0 THEN 0 ELSE counts[1].Count + SumCount(Tail(counts))

\* Mutant: the percentage is cut to one decimal instead of rounded.
Percentage_truncated(count, total) == (count * 1000) \div total

\* (count / total * 100).round(1), in tenths of a percent: rounded to the nearest
\* tenth, a tie going to the even tenth (numpy's round).
Percentage(count, total) ==
    LET q == (count * 1000) \div total
        r == (count * 1000) % total
    IN  IF 2 * r < total THEN q
        ELSE IF 2 * r > total THEN q + 1
        ELSE IF q % 2 = 0 THEN q ELSE q + 1

\* str() of a percentage: '33.3'
PercentageStr(p) == IntStr(p \div 10) \o <<".">> \o IntStr(p % 10)

\* str(count) + ' (' + str(percentage) + '%)'
CountLabel(count, p) ==
    IntStr(count) \o <<" ", "(">> \o PercentageStr(p) \o <<"%", ")">>

\* The count table of a column with its percentages (lines 211-216, 263-268 and
\* 317-322): value_counts, total = the sum of the counts, Percentage per row.
countBy(cells) ==
    LET counts == value_counts(cells)
        total == SumCount(counts)
    IN  [k \in 1..Len(counts) |->
            [value |-> counts[k].value,
             Count |-> counts[k].Count,
             Percentage |-> Percentage(counts[k].Count, total)]]

\* counts.sort_values('Count', ascending=True), equal counts keeping their order.
sort_values_Count(rows) ==
    LET before(i, j) ==
            \/ rows[i].Count < rows[j].Count
            \/ rows[i].Count = rows[j].Count /\ i < j
        rank(i) == 1 + Cardinality({j \in 1..Len(rows) : before(j, i)})
    IN  [k \in 1..Len(rows) |-> rows[CHOOSE i \in 1..Len(rows) : rank(i) = k]]

\* What a chart function leaves behind: the figure it returns (or NoFig), what it
\* wrote to the page, the exception it let escape, and the df it was given.
Outcome(fig, events, d) == [fig |-> fig, page |-> events, raised |-> NoError, df |-> d]

\* The rows of a bar chart: the count table with its text labels, sorted by count.
BarData(cells) ==
    LET counts == countBy(cells)
    IN  sort_values_Count(
            [k \in 1..Len(counts) |->
                [value |-> counts[k].value,
                 Count |-> counts[k].Count,
                 Percentage |-> counts[k].Percentage,
                 Label |-> CountLabel(counts[k].Count, counts[k].Percentage)]])

\* Mutant: the function has no try/except, the exception of its body escapes.
create_employees_by_department_no_except(d, c, lib_fails) ==
    IF c = None THEN Outcome(NoFig, <<>>, d)
    ELSE IF ~InColumns(c, d) THEN [Outcome(NoFig, <<>>, d) EXCEPT !.raised = "KeyError"]
    ELSE IF lib_fails THEN [Outcome(NoFig, <<>>, d) EXCEPT !.raised = "Exception"]
    ELSE Outcome([kind |-> "bar", title |-> <<"E", "m", "p", "l", "o", "y", "e", "e", "s", " ", "b", "y", " ">> \o c,
                  data |-> BarData(Column(d, c))], <<>>, d)

\* create_employees_by_department(df, dept_col).  lib_fails: pandas or plotly
\* raises inside the try block; a missing column raises KeyError there.
create_employees_by_department(d, c, lib_fails) ==
    IF c = None THEN Outcome(NoFig, <<>>, d)
    ELSE IF ~InColumns(c, d) \/ lib_fails
    THEN Outcome(NoFig, <<Ev("warning", "Error creating department chart")>>, d)
    ELSE Outcome([kind |-> "bar", title |-> <<"E", "m", "p", "l", "o", "y", "e", "e", "s", " ", "b", "y", " ">> \o c,
                  data |-> BarData(Column(d, c))], <<>>, d)

\* group_counts[emp_group_col] + '<br>' + ...: adding text to a category that is
\* not text raises TypeError.
GroupLabelTypeError(d, c) ==
    \E i \in 1..Len(d.rows) : ~IsNull(Column(d, c)[i]) /\ Column(d, c)[i].t # "str"

\* The rows of the donut chart: the count table with its labels, in value_counts order.
PieData(cells) ==
    LET counts == countBy(cells)
    IN  [k \in 1..Len(counts) |->
            [value |-> counts[k].value,
             Count |-> counts[k].Count,
             Percentage |-> counts[k].Percentage,
             Label |-> counts[k].value.v \o <<"<", "b", "r", ">">>
                        \o CountLabel(counts[k].Count, counts[k].Percentage)]]

\* create_employee_group_split(df, emp_group_col)
create_employee_group_split(d, c, lib_fails) ==
    IF c = None THEN Outcome(NoFig, <<>>, d)
    ELSE IF ~InColumns(c, d) \/ lib_fails \/ GroupLabelTypeError(d, c)
    THEN Outcome(NoFig, <<Ev("warning", "Error creating employee group chart")>>, d)
    ELSE Outcome([kind |-> "pie", title |-> c \o <<" ", "S", "p", "l", "i", "t">>,
                  data |-> PieData(Column(d, c))], <<>>, d)

\* Mutant: the function has no try/except, the exception of its body escapes.
create_talent_distribution_no_except(d, c, lib_fails) ==
    IF c = None THEN Outcome(NoFig, <<>>, d)
    ELSE IF ~InColumns(c, d) THEN [Outcome(NoFig, <<>>, d) EXCEPT !.raised = "KeyError"]
    ELSE IF lib_fails THEN [Outcome(NoFig, <<>>, d) EXCEPT !.raised = "Exception"]
    ELSE Outcome([kind |-> "bar", title |-> <<"H", "e", "a", "d", "c", "o", "u", "n", "t", " ", "b", "y", " ">> \o c,
                  data |-> BarData(Column(d, c))], <<>>, d)

\* create_talent_distribution(df, job_col)
create_talent_distribution(d, c, lib_fails) ==
    IF c = None THEN Outcome(NoFig, <<>>, d)
    ELSE IF ~InColumns(c, d) \/ lib_fails
    THEN Outcome(NoFig, <<Ev("warning", "Error creating job family chart")>>, d)
    ELSE Outcome([kind |-> "bar", title |-> <<"H", "e", "a", "d", "c", "o", "u", "n", "t", " ", "b", "y", " ">> \o c,
                  data |-> BarData(Column(d, c))], <<>>, d)

-----------------------------------------------------------------------------
(* The hiring trend: pd.to_datetime, .dt.year and groupby('Join Year').     *)

\* The year of integers turned into timestamps: nanoseconds since the epoch.
EpochYear == 1970

IsDigit(c) == \E i \in 1..Len(DigitChars) : DigitChars[i] = c

DigitVal(c) == (CHOOSE i \in 1..Len(DigitChars) : DigitChars[i] = c) - 1

\* int() of a string of digits.
RECURSIVE DigitsVal(_)
DigitsVal(v) ==
    IF Len(v) = 0 THEN 0
    ELSE 10 * DigitsVal(SubSeq(v, 1, Len(v) - 1)) + DigitVal(v[Len(v)])

DaysInMonth(year, month) ==
    IF month = 2
    THEN (IF year % 4 = 0 /\ (year % 100 # 0 \/ year % 400 = 0) THEN 29 ELSE 28)
    ELSE IF month \in {4, 6, 9, 11} THEN 30 ELSE 31

\* A string read as a date 'YYYY-MM-DD': the timestamp, or NaT if it is no date.
ParseDate(v) ==
    IF /\ Len(v) = 10
       /\ v[5] = "-" /\ v[8] = "-"
       /\ \A i \in {1, 2, 3, 4, 6, 7, 9, 10} : IsDigit(v[i])
    THEN LET year == DigitsVal(SubSeq(v, 1, 4))
             month == DigitsVal(SubSeq(v, 6, 7))
             day == DigitsVal(SubSeq(v, 9, 10))
         IN  IF month \in 1..12 /\ day >= 1 /\ day <= DaysInMonth(year, month)
             THEN Timestamp(v, year) ELSE NaT
    ELSE NaT

\* pd.to_datetime(cell, errors='coerce'): what cannot be read as a date is NaT.
to_datetime(c) ==
    CASE c.t = "str" -> ParseDate(c.v)
      [] c.t = "num" -> Dt(EpochYear)
      [] c.t = "dt" -> c
      [] OTHER -> NaT

\* series.dt.year: the year of a timestamp, NaN for NaT.
dt_year(c) == IF c.t = "dt" THEN Num(IntStr(c.y)) ELSE Null

\* Mutant: groupby(..., dropna=False), the rows without a year form a group of
\* their own (year 0), listed last.
hiring_trend_keepna(years) ==
    LET ys == {DigitsVal(years[i].v) : i \in 1..Len(years)}
        size(y) == Cardinality({i \in 1..Len(years) : DigitsVal(years[i].v) = y})
        rank(y) == 1 + Cardinality({z \in ys : (z < y /\ z # 0) \/ (y = 0 /\ z # 0)})
    IN  [k \in 1..Cardinality(ys) |->
            LET y == CHOOSE y \in ys : rank(y) = k
            IN  [JoinYear |-> y, NewHires |-> size(y)]]

\* df.groupby('Join Year').size().reset_index(name='New Hires'): one row per year
\* of the 'Join Year' cells, NaN left out, in ascending order of the year.
hiring_trend(years) ==
    LET ys == {DigitsVal(years[i].v) : i \in {j \in 1..Len(years) : ~IsNull(years[j])}}
        size(y) ==
            Cardinality({i \in 1..Len(years) :
                            ~IsNull(years[i]) /\ DigitsVal(years[i].v) = y})
        rank(y) == 1 + Cardinality({z \in ys : z < y})
    IN  [k \in 1..Cardinality(ys) |->
            LET y == CHOOSE y \in ys : rank(y) = k
            IN  [JoinYear |-> y, NewHires |-> size(y)]]

\* df after line 370: the date column turned into timestamps unless it is one.
WithTimestamps(d, c) ==
    IF Dtype(d, c) = "datetime64" THEN d
    ELSE SetColumn(d, c, [r \in 1..Len(d.rows) |-> to_datetime(Column(d, c)[r])],
                   "datetime64")

\* df after line 373: the column 'Join Year' set to the years of the date column.
WithJoinYear(d, c) ==
    LET years == [r \in 1..Len(d.rows) |-> dt_year(Column(d, c)[r])]
    IN  SetColumn(d, N_JoinYear, years,
                  IF \E r \in 1..Len(years) : IsNull(years[r]) THEN "float64" ELSE "int32")

\* create_tenure_trend(df, joining_date_col).  It assigns to df, the table of its
\* caller.  lib_fails: px.line raises, after the assignments.
create_tenure_trend(d, c, lib_fails) ==
    IF c = None THEN Outcome(NoFig, <<>>, d)
    ELSE IF ~InColumns(c, d)
    THEN Outcome(NoFig, <<Ev("warning", "Error creating tenure trend chart")>>, d)
    ELSE LET d2 == WithJoinYear(WithTimestamps(d, c), c)
         IN  IF lib_fails
             THEN Outcome(NoFig, <<Ev("warning", "Error creating tenure trend chart")>>, d2)
             ELSE Outcome([kind |-> "line", title |-> <<"H", "i", "r", "i", "n", "g", " ", "T", "r", "e", "n", "d", " ", "O", "v", "e", "r", " ", "Y", "e", "a", "r", "s">>,
                           data |-> hiring_trend(Column(d2, N_JoinYear))], <<>>, d2)

-----------------------------------------------------------------------------
(* safe_dataframe_display.                                                 *)

\* display_df.head(5)
HeadRows == 5

\* cell.astype(str) in a column of dtype dt: a whole number of a float64 column
\* prints with '.0', a missing value as 'nan', NaT as 'NaT'.
AsStr(c, dt) ==
    CASE c.t = "str" -> c
      [] c.t = "num" -> Str(IF dt = "float64" THEN c.v \o <<".", "0">> ELSE c.v)
      [] c.t = "null" -> Str(<<"n", "a", "n">>)
      [] c.t = "dt" -> Str(c.v)
      [] OTHER -> Str(<<"N", "a", "T">>)

\* df[col] = df[col].astype(str), for the column at position i.
ColumnAsStr(d, i) ==
    [d EXCEPT
        !.dtypes[i] = "object",
        !.rows = [r \in 1..Len(d.rows) |->
                    [d.rows[r] EXCEPT !.cells[i] = AsStr(@, d.dtypes[i])]]]

\* df after the loop of lines 188-192: every column turned into text, but for the
\* columns (positions) whose astype(str) raises.
RECURSIVE Coerced(_, _, _)
Coerced(d, astype_fails, i) ==
    IF i > Len(d.columns) THEN d
    ELSE Coerced(IF i \in astype_fails THEN d ELSE ColumnAsStr(d, i), astype_fails, i + 1)

\* The warnings of the loop, one per column whose astype(str) raises, in column order.
RECURSIVE CoercionWarnings(_, _, _)
CoercionWarnings(d, astype_fails, i) ==
    IF i > Len(d.columns) THEN <<>>
    ELSE (IF i \in astype_fails THEN <<Ev("warning", "Error converting column")>> ELSE <<>>)
            \o CoercionWarnings(d, astype_fails, i + 1)

\* df.head(n)
head(d, n) == [d EXCEPT !.rows = SubSeq(d.rows, 1, IF Len(d.rows) < n THEN Len(d.rows) ELSE n)]

\* The page after the first st.dataframe(df) raised: the warning, the warnings of
\* the loop, and the second attempt on display_df or the text of its first rows.
DegradedDisplay(display_df, warnings, retry_fails) ==
    <<Ev("warning", "Converting columns to string format for display compatibility")>>
    \o warnings
    \o (IF retry_fails
        THEN <<Ev("error", "Failed to display dataframe even after conversion"),
               Ev("info", "Displaying first 5 rows as text instead:"),
               EvData("text", "str(display_df.head(5))", head(display_df, HeadRows))>>
        ELSE <<EvData("dataframe", "display_df", display_df)>>)

\* Mutant: display_df = df, no copy: the columns of the caller's table are coerced.
safe_dataframe_display_no_copy(d, render_fails, astype_fails, retry_fails) ==
    IF ~render_fails
    THEN Outcome(NoFig, <<EvData("dataframe", "df", d)>>, d)
    ELSE Outcome(NoFig,
                 DegradedDisplay(Coerced(d, astype_fails, 1),
                                 CoercionWarnings(d, astype_fails, 1), retry_fails),
                 Coerced(d, astype_fails, 1))

\* safe_dataframe_display(df).  render_fails: st.dataframe(df) raises;
\* astype_fails: the columns whose astype(str) raises; retry_fails:
\* st.dataframe(display_df) raises.  display_df is a copy: df stays as it was.
safe_dataframe_display(d, render_fails, astype_fails, retry_fails) ==
    IF ~render_fails
    THEN Outcome(NoFig, <<EvData("dataframe", "df", d)>>, d)
    ELSE Outcome(NoFig,
                 DegradedDisplay(Coerced(d, astype_fails, 1),
                                 CoercionWarnings(d, astype_fails, 1), retry_fails),
                 d)

\* The library calls of safe_dataframe_display that were made and raised.
DisplayFailures(d, render_fails, astype_fails, retry_fails) ==
    IF ~render_fails THEN {}
    ELSE {Fail("st.dataframe", 1)}
         \cup {Fail("astype", i) : i \in astype_fails}
         \cup (IF retry_fails THEN {Fail("st.dataframe", 2)} ELSE {})

-----------------------------------------------------------------------------
(* load_data and the steps of main.                                        *)

\* uploaded_file is None.
NoFile == [name |-> None, parses |-> FALSE, content |-> EmptyTable]

\* df is None: no table.
NoTable == [columns |-> <<None>>, dtypes |-> <<>>, rows |-> <<>>]

\* s.endswith(suffix)
EndsWith(s, suffix) ==
    Len(s) >= Len(suffix) /\ SubSeq(s, Len(s) - Len(suffix) + 1, Len(s)) = suffix

\* Mutant: the function has no try/except, the exception of the parser escapes.
load_data_no_except(file) ==
    IF \/ EndsWith(file.name, <<".", "c", "s", "v">>)
       \/ EndsWith(file.name, <<".", "x", "l", "s", "x">>)
       \/ EndsWith(file.name, <<".", "x", "l", "s">>)
    THEN (IF file.parses THEN Outcome(NoFig, <<>>, file.content)
          ELSE [Outcome(NoFig, <<>>, NoTable) EXCEPT !.raised = "Exception"])
    ELSE Outcome(NoFig, <<Ev("error", "Unsupported file format")>>, NoTable)

\* load_data(file_path), for a path and for an uploaded file alike: the extension
\* of the name picks the parser, which returns file.content or raises
\* (~file.parses); anything raised is reported and None returned.
load_data(file) ==
    IF \/ EndsWith(file.name, <<".", "c", "s", "v">>)
       \/ EndsWith(file.name, <<".", "x", "l", "s", "x">>)
       \/ EndsWith(file.name, <<".", "x", "l", "s">>)
    THEN (IF file.parses THEN Outcome(NoFig, <<>>, file.content)
          ELSE Outcome(NoFig, <<Ev("error", "Error loading data")>>, NoTable))
    ELSE Outcome(NoFig, <<Ev("error", "Unsupported file format")>>, NoTable)

\* Lines 442-445: every column with 'Pers' in its name turned into text, an info
\* line for each.
RECURSIVE PersAsStr(_, _)
PersAsStr(d, i) ==
    IF i > Len(d.columns) THEN d
    ELSE PersAsStr(IF Contains(d.columns[i], K_Pers) THEN ColumnAsStr(d, i) ELSE d, i + 1)

RECURSIVE PersInfos(_, _)
PersInfos(d, i) ==
    IF i > Len(d.columns) THEN <<>>
    ELSE (IF Contains(d.columns[i], K_Pers)
          THEN <<Ev("sidebar.info", "Found column - converting to string type")>>
          ELSE <<>>) \o PersInfos(d, i + 1)

\* Lines 431-464: the pre-processing of a copy of df, and the messages after it.
pre_process(d) ==
    LET first == IF InColumns(N_PersNo, d)
                 THEN ColumnAsStr(d, ColumnIndex(d, N_PersNo)) ELSE d
    IN  Outcome(NoFig,
                (IF InColumns(N_PersNo, d)
                 THEN <<Ev("sidebar.info", "Found 'Pers.No.' column - converting to string type")>>
                 ELSE <<>>)
                \o PersInfos(d, 1)
                \o <<Ev("sidebar.success", "Data pre-processing completed successfully"),
                     EvN("sidebar.success", "Data loaded successfully: rows", Len(d.rows)),
                     Ev("sidebar.dataframe", "View Data Types Info")>>,
                PersAsStr(first, 1))

\* if col: a detected column (None and '' are false).
Truthy(c) == c # None /\ c # <<>>

\* df[col].dropna().unique(): the values a filter offers.
FilterOptions(d, c) ==
    {Column(d, c)[i] : i \in {j \in 1..Len(d.rows) : ~IsNull(Column(d, c)[j])}}

\* sorted(options) raises TypeError when the values are of different kinds.
SortRaises(options) == \E u, v \in options : u.t # v.t

\* Mutant: the filter drops the selected rows instead of keeping them.
isin_filter_negated(d, c, selected) ==
    [d EXCEPT !.rows = SelectSeq(d.rows,
        LAMBDA row : row.cells[ColumnIndex(d, c)] \notin selected)]

\* df[df[col].isin(selected)]: a new table of the rows whose value is selected.
isin_filter(d, c, selected) ==
    [d EXCEPT !.rows = SelectSeq(d.rows,
        LAMBDA row : row.cells[ColumnIndex(d, c)] \in selected)]

\* df[col].nunique()
nunique(d, c) == Cardinality(FilterOptions(d, c))

\* Lines 512-540: the title and the three metric tiles.
title_and_metrics(d, dept, job, filtered) ==
    <<EvN(IF filtered THEN "markdown (filtered)" ELSE "markdown", "dashboard-title: employees",
          Len(d.rows)),
      Ev("markdown", "section: Key HR Metrics"),
      EvN("metric_card", "Total Employees", Len(d.rows)),
      IF Truthy(dept) THEN EvN("metric_card", "Total departments", nunique(d, dept))
      ELSE Ev("metric_card", "Departments N/A"),
      IF Truthy(job) THEN EvN("metric_card", "Total job families", nunique(d, job))
      ELSE Ev("metric_card", "Job Families N/A")>>

\* Mutant: a section without a column writes nothing.
chart_section_no_placeholder(d, c, o, key, placeholder) ==
    IF Truthy(c)
    THEN (IF o.fig # NoFig
          THEN [o EXCEPT !.page = @ \o <<EvFig("plotly_chart", key, o.fig)>>]
          ELSE o)
    ELSE Outcome(NoFig, <<>>, d)

\* A chart section of main: the chart function is called for a detected column and
\* its figure plotted if it returned one; without a column the section says so.
chart_section(d, c, o, key, placeholder) ==
    IF Truthy(c)
    THEN (IF o.fig # NoFig
          THEN [o EXCEPT !.page = @ \o <<EvFig("plotly_chart", key, o.fig)>>]
          ELSE o)
    ELSE Outcome(NoFig, <<Ev("info", placeholder)>>, d)

-----------------------------------------------------------------------------
(* main: one render pass, Spec.                                            *)

\* Cells (columns times rows) of an uploaded table.
MaxCells == 4

\* The column names of the uploaded tables, in the order of their columns.
UploadNames == <<N_DEPT, N_JobRole, N_EmpGroup, N_HireDate, N_PersNo>>

\* The values of the cells of the uploaded tables: two texts and a number.
UploadCells == {Str(<<"A">>), Str(<<"B">>), Num(<<"7">>)}

\* The sub-sequence of UploadNames at the positions S.
RECURSIVE NamesAt(_, _)
NamesAt(S, i) ==
    IF i > Len(UploadNames) THEN <<>>
    ELSE (IF i \in S THEN <<UploadNames[i]>> ELSE <<>>) \o NamesAt(S, i + 1)

\* The uploaded tables: any choice of the columns without rows, and with rows as
\* long as the table has at most MaxCells cells.
UploadTables ==
    UNION {UNION {{Table(NamesAt(S, 1), rows) :
                        rows \in [1..r -> [1..Cardinality(S) -> UploadCells]]}
                  : r \in {q \in 0..MaxCells : q * Cardinality(S) <= MaxCells}}
           : S \in SUBSET (1..Len(UploadNames))}

\* What st.sidebar.file_uploader returns: no file, a spreadsheet of any table, or a
\* file of another name (the uploader takes extensions in any case) or content.
UploadedFiles ==
    {NoFile}
    \cup {[name |-> <<"h", "r", ".", "x", "l", "s", "x">>, parses |-> TRUE, content |-> d] :
            d \in UploadTables}
    \cup {[name |-> n, parses |-> ok, content |-> Table(<<N_DEPT>>, <<<<Str(<<"A">>)>>>>)] :
            n \in {<<"h", "r", ".", "c", "s", "v">>, <<"h", "r", ".", "x", "l", "s", "x">>,
                   <<"h", "r", ".", "x", "l", "s">>, <<"h", "r", ".", "C", "S", "V">>},
            ok \in BOOLEAN}

Init ==
    /\ pc = "start" /\ call = "main"
    /\ uploaded_file \in UploadedFiles
    /\ df = NoTable /\ arg_df = NoTable
    /\ col = None /\ ret = NoFig /\ raised = NoError /\ page = <<>> /\ failed_libs = {}
    /\ dept_col = None /\ job_col = None /\ emp_group_col = None /\ joining_date_col = None
    /\ selected_depts = {} /\ selected_jobs = {} /\ selected_groups = {}
    /\ filters_applied = FALSE

callVars == <<call, arg_df, col, ret, raised>>

detectedVars == <<dept_col, job_col, emp_group_col, joining_date_col>>

selectionVars == <<selected_depts, selected_jobs, selected_groups, filters_applied>>

\* Lines 422-427: load the upload, or ask for one.  An exception that escapes
\* load_data ends the pass.
Load ==
    /\ pc = "start" /\ call = "main"
    /\ IF uploaded_file # NoFile
       THEN /\ df' = load_data(uploaded_file).df
            /\ page' = page \o load_data(uploaded_file).page
            /\ raised' = load_data(uploaded_file).raised
       ELSE /\ df' = NoTable
            /\ page' = page \o <<Ev("warning", "Please upload an HR data file to continue.")>>
            /\ raised' = raised
    /\ pc' = (IF raised' = NoError THEN "loaded" ELSE "raised")
    /\ UNCHANGED <<uploaded_file, failed_libs, call, arg_df, col, ret, detectedVars,
                   selectionVars>>

\* Lines 599-600: no table, nothing but the notice.
NoData ==
    /\ pc = "loaded" /\ df = NoTable
    /\ page' = page \o <<Ev("info", "Please upload an HR data file to view the dashboard.")>>
    /\ pc' = "done"
    /\ UNCHANGED <<uploaded_file, df, failed_libs, callVars, detectedVars, selectionVars>>

\* Lines 431-477: pre-processing and column detection.
PreProcessAndDetect ==
    /\ pc = "loaded" /\ df # NoTable
    /\ df' = pre_process(df).df
    /\ dept_col' = detect_department_column(df')
    /\ job_col' = detect_job_family_column(df')
    /\ emp_group_col' = detect_employee_group_column(df')
    /\ joining_date_col' = detect_joining_date_column(df')
    /\ page' = page \o pre_process(df).page \o <<Ev("sidebar.write", "View Detected Columns")>>
    /\ pc' = "filter_dept"
    /\ UNCHANGED <<uploaded_file, failed_libs, callVars, selectionVars>>

\* The selections the user can make in the filter of column c: any of its options
\* if the widget is made, none if it is not (no column, or sorted raised).
FilterSelections(d, c) ==
    IF Truthy(c) /\ ~SortRaises(FilterOptions(d, c))
    THEN SUBSET FilterOptions(d, c) ELSE {{}}

\* One filter of lines 482-510, for the detected column c and the selection sel:
\* the table after it, what it wrote, and whether it filtered.
filter_step(d, c, sel) ==
    IF ~Truthy(c) THEN [df |-> d, page |-> <<>>, applied |-> FALSE]
    ELSE IF SortRaises(FilterOptions(d, c))
    THEN [df |-> d, page |-> <<Ev("sidebar.warning", "Could not create filter")>>,
          applied |-> FALSE]
    ELSE [df |-> IF sel # {} THEN isin_filter(d, c, sel) ELSE d,
          page |-> <<EvN("sidebar.multiselect", "filter", Cardinality(sel))>>,
          applied |-> sel # {}]

FilterDept ==
    /\ pc = "filter_dept"
    /\ \E sel \in FilterSelections(df, dept_col) :
        /\ selected_depts' = sel
        /\ df' = filter_step(df, dept_col, sel).df
        /\ page' = page \o filter_step(df, dept_col, sel).page
        /\ filters_applied' = (filters_applied \/ filter_step(df, dept_col, sel).applied)
    /\ pc' = "filter_job"
    /\ UNCHANGED <<uploaded_file, failed_libs, callVars, detectedVars,
                   selected_jobs, selected_groups>>

FilterJob ==
    /\ pc = "filter_job"
    /\ \E sel \in FilterSelections(df, job_col) :
        /\ selected_jobs' = sel
        /\ df' = filter_step(df, job_col, sel).df
        /\ page' = page \o filter_step(df, job_col, sel).page
        /\ filters_applied' = (filters_applied \/ filter_step(df, job_col, sel).applied)
    /\ pc' = "filter_group"
    /\ UNCHANGED <<uploaded_file, failed_libs, callVars, detectedVars,
                   selected_depts, selected_groups>>

\* The employee-group filter, and the title and metric tiles that follow it.
FilterGroup ==
    /\ pc = "filter_group"
    /\ \E sel \in FilterSelections(df, emp_group_col) :
        LET o == filter_step(df, emp_group_col, sel)
        IN  /\ selected_groups' = sel
            /\ df' = o.df
            /\ filters_applied' = (filters_applied \/ o.applied)
            /\ page' = page \o o.page
                        \o title_and_metrics(o.df, dept_col, job_col,
                                             filters_applied \/ o.applied)
    /\ pc' = "chart_dept"
    /\ UNCHANGED <<uploaded_file, failed_libs, callVars, detectedVars,
                   selected_depts, selected_jobs>>

\* The library failures a chart section can meet: none without a column.
LibFailures(c) == IF Truthy(c) THEN BOOLEAN ELSE {FALSE}

\* A chart section writes header and what chart_section gives, and moves on; an
\* exception that escapes the chart function ends the pass.
Section(fn, header, lib_fails, o, next) ==
    /\ page' = page \o <<Ev("markdown", header)>> \o o.page
    /\ df' = o.df
    /\ failed_libs' = failed_libs \cup (IF lib_fails THEN {Fail(fn, 1)} ELSE {})
    /\ raised' = o.raised
    /\ pc' = (IF o.raised = NoError THEN next ELSE "raised")
    /\ UNCHANGED <<uploaded_file, call, arg_df, col, ret, detectedVars, selectionVars>>

\* Lines 542-553.
DeptSection ==
    /\ pc = "chart_dept"
    /\ \E lib_fails \in LibFailures(dept_col) :
        Section("create_employees_by_department", "section: Workforce Overview", lib_fails,
                chart_section(df, dept_col,
                              create_employees_by_department(df, dept_col, lib_fails),
                              "dept_overview", "Department column not detected in the data."),
                "chart_group")

\* Lines 555-561.
GroupSection ==
    /\ pc = "chart_group"
    /\ \E lib_fails \in LibFailures(emp_group_col) :
        Section("create_employee_group_split", "column: overview_col2", lib_fails,
                chart_section(df, emp_group_col,
                              create_employee_group_split(df, emp_group_col, lib_fails),
                              "group_split", "Employee Group column not detected in the data."),
                "chart_job")

\* Lines 565-573.
JobSection ==
    /\ pc = "chart_job"
    /\ \E lib_fails \in LibFailures(job_col) :
        Section("create_talent_distribution", "section: Talent Distribution by Job Family",
                lib_fails,
                chart_section(df, job_col,
                              create_talent_distribution(df, job_col, lib_fails),
                              "job_dist", "Job Family column not detected in the data."),
                "chart_tenure")

\* Lines 577-585.
TenureSection ==
    /\ pc = "chart_tenure"
    /\ \E lib_fails \in LibFailures(joining_date_col) :
        Section("create_tenure_trend", "section: Tenure Trend", lib_fails,
                chart_section(df, joining_date_col,
                              create_tenure_trend(df, joining_date_col, lib_fails),
                              "tenure_trend", "Joining Date column not detected in the data."),
                "table")

\* Lines 589-597: the table and the footer.  Of the failures of
\* safe_dataframe_display, those of st.dataframe are drawn here.
TableSection ==
    /\ pc = "table"
    /\ \E render_fails \in BOOLEAN : \E retry_fails \in (IF render_fails THEN BOOLEAN ELSE {FALSE}) :
        LET o == safe_dataframe_display(df, render_fails, {}, retry_fails)
        IN  /\ page' = page \o <<Ev("markdown", "section: Detailed Employee Table")>>
                        \o o.page \o <<Ev("caption", "footer")>>
            /\ df' = o.df
            /\ failed_libs' = failed_libs
                                \cup DisplayFailures(df, render_fails, {}, retry_fails)
    /\ pc' = "done"
    /\ UNCHANGED <<uploaded_file, callVars, detectedVars, selectionVars>>

Next ==
    \/ Load
    \/ NoData
    \/ PreProcessAndDetect
    \/ FilterDept
    \/ FilterJob
    \/ FilterGroup
    \/ DeptSection
    \/ GroupSection
    \/ JobSection
    \/ TenureSection
    \/ TableSection

Spec == Init /\ [][Next]_vars

-----------------------------------------------------------------------------
(* Direct calls of safe_dataframe_display: SpecDisplay.                    *)

\* Rows of a table handed to safe_dataframe_display.
MaxDisplayRows == 6

\* Tables of a text column with gaps and a column of whole numbers.
DisplayTables ==
    UNION {{Table(<<N_Name, N_PersNo>>, [i \in 1..n |-> <<TextValue(s[i] * i), NumberValue(i)>>])
            : s \in [1..n -> {0, 1}]} : n \in 0..MaxDisplayRows}

InitDisplay ==
    /\ pc = "start" /\ call = "direct"
    /\ df \in DisplayTables
    /\ arg_df = df
    /\ col = None /\ ret = NoFig /\ raised = NoError /\ page = <<>> /\ failed_libs = {}
    /\ MainIdle

CallSafeDataframeDisplay ==
    \E render_fails, retry_fails \in BOOLEAN, astype_fails \in SUBSET (1..Len(df.columns)) :
        LET o == safe_dataframe_display(df, render_fails, astype_fails, retry_fails)
        IN  /\ pc = "start" /\ call = "direct"
            /\ pc' = "returned" /\ call' = "safe_dataframe_display"
            /\ failed_libs' = DisplayFailures(df, render_fails, astype_fails, retry_fails)
            /\ page' = page \o o.page
            /\ raised' = o.raised
            /\ df' = o.df
            /\ UNCHANGED <<arg_df, col, ret, mainVars>>

NextDisplay == CallSafeDataframeDisplay

SpecDisplay == InitDisplay /\ [][NextDisplay]_vars

-----------------------------------------------------------------------------
(* Direct calls of the detectors: SpecDetect.                              *)

\* Column names of the tables handed to the detectors.
DetectNames ==
    {N_Department, N_OrganizationalUnit, N_DEPT, N_JobUnit, N_JobFamily, N_JobRole,
     N_EmployeeGroup, N_EmpGroup, N_JoiningDate, N_HireDate, N_Name, N_BirthDate}

\* The lists of at most n distinct names of pool (column names are unique).
ColumnLists(pool, n) ==
    UNION {{s \in [1..k -> pool] : \A i, j \in 1..k : i # j => s[i] # s[j]} : k \in 0..n}

InitDetect ==
    /\ pc = "start" /\ call = "direct"
    /\ df \in {Table(c, <<>>) : c \in ColumnLists(DetectNames, MaxCols)}
    /\ arg_df = df
    /\ col = None /\ ret = None /\ raised = NoError /\ page = <<>> /\ failed_libs = {}
    /\ MainIdle

\* A detector is called with df and returns; it reads df.columns only.
Returned(fn, value) ==
    /\ pc = "start" /\ call = "direct"
    /\ pc' = "returned" /\ call' = fn
    /\ ret' = value
    /\ UNCHANGED <<df, arg_df, col, raised, page, failed_libs, mainVars>>

CallDetectDepartment == Returned("detect_department_column", detect_department_column(df))

CallDetectJobFamily == Returned("detect_job_family_column", detect_job_family_column(df))

CallDetectEmployeeGroup ==
    Returned("detect_employee_group_column", detect_employee_group_column(df))

CallDetectJoiningDate ==
    Returned("detect_joining_date_column", detect_joining_date_column(df))

NextDetect ==
    \/ CallDetectDepartment
    \/ CallDetectJobFamily
    \/ CallDetectEmployeeGroup
    \/ CallDetectJoiningDate

SpecDetect == InitDetect /\ [][NextDetect]_vars

-----------------------------------------------------------------------------
(* Direct calls of the four chart functions: SpecAgg.                      *)

\* Rows of a column handed to a count chart.
MaxAggRows == 6

\* Rows of a column handed to the hiring trend.
MaxDateRows == 3

SeqMax(s) == IF Len(s) = 0 THEN 0 ELSE CHOOSE m \in {s[i] : i \in 1..Len(s)} :
                                            \A i \in 1..Len(s) : s[i] <= m

\* The columns of n rows up to the names of their values: 0 stands for a missing
\* value, and the k-th distinct value to appear is k (the count charts only compare
\* values for equality).
RECURSIVE ValuePatterns(_)
ValuePatterns(n) ==
    IF n = 0 THEN {<<>>}
    ELSE UNION {{Append(s, v) : v \in 0..(SeqMax(s) + 1)} : s \in ValuePatterns(n - 1)}

CountTables ==
    UNION {{OneColumn(N_DEPT, [i \in 1..n |-> TextValue(s[i])]) : s \in ValuePatterns(n)}
           \cup {OneColumn(N_DEPT, [i \in 1..n |-> NumberValue(s[i])]) : s \in ValuePatterns(n)}
           : n \in 0..MaxAggRows}

\* Date columns as text (two dates, a thirteenth month, no date at all, a gap), as
\* timestamps, and as whole numbers.
DateTexts ==
    {Str(<<"2", "0", "2", "0", "-", "0", "1", "-", "0", "5">>),
     Str(<<"2", "0", "2", "1", "-", "0", "6", "-", "3", "0">>),
     Str(<<"2", "0", "2", "0", "-", "1", "3", "-", "0", "1">>),
     Str(<<"n", "/", "a">>),
     Null}

DateTables ==
    UNION {{OneColumn(N_HireDate, s) : s \in [1..n -> DateTexts]}
           \cup {OneColumn(N_HireDate, s) : s \in [1..n -> {Dt(2020), Dt(2021), NaT}]}
           \cup {OneColumn(N_HireDate, [i \in 1..n |-> Num(<<"7">>)])}
           : n \in 0..MaxDateRows}

\* The column argument: the column of the table, a name the table lacks, or None.
InitAgg ==
    /\ pc = "start" /\ call = "direct"
    /\ df \in CountTables \cup DateTables
    /\ arg_df = df
    /\ col \in {df.columns[1], N_Name, None}
    /\ ret = NoFig /\ raised = NoError /\ page = <<>> /\ failed_libs = {}
    /\ MainIdle

\* A chart function is called with (df, col) and returns.
ChartReturned(fn, lib_fails, o) ==
    /\ pc = "start" /\ call = "direct"
    /\ pc' = "returned" /\ call' = fn
    /\ failed_libs' = IF lib_fails THEN {Fail(fn, 1)} ELSE {}
    /\ ret' = o.fig
    /\ page' = page \o o.page
    /\ raised' = o.raised
    /\ df' = o.df
    /\ UNCHANGED <<arg_df, col, mainVars>>

CallCreateEmployeesByDepartment ==
    \E lib_fails \in BOOLEAN :
        ChartReturned("create_employees_by_department", lib_fails,
                      create_employees_by_department(df, col, lib_fails))

CallCreateEmployeeGroupSplit ==
    \E lib_fails \in BOOLEAN :
        ChartReturned("create_employee_group_split", lib_fails,
                      create_employee_group_split(df, col, lib_fails))

CallCreateTalentDistribution ==
    \E lib_fails \in BOOLEAN :
        ChartReturned("create_talent_distribution", lib_fails,
                      create_talent_distribution(df, col, lib_fails))

CallCreateTenureTrend ==
    \E lib_fails \in BOOLEAN :
        ChartReturned("create_tenure_trend", lib_fails,
                      create_tenure_trend(df, col, lib_fails))

NextAgg ==
    \/ CallCreateEmployeesByDepartment
    \/ CallCreateEmployeeGroupSplit
    \/ CallCreateTalentDistribution
    \/ CallCreateTenureTrend

SpecAgg == InitAgg /\ [][NextAgg]_vars

-----------------------------------------------------------------------------
(* The detectors' contract, as the specification states it.                *)

\* The keyword rule of each role, on a column name.
OrgUnitRule(name) ==
    LET lower == Lower(name)
    IN  \E k \in {K_department, K_dept, K_org, K_unit} : Contains(lower, k)

RoleFamilyRule(name) ==
    LET lower == Lower(name)
    IN  /\ Contains(lower, K_job)
        /\ \E k \in {K_family, K_role, K_position} : Contains(lower, k)

EmployeeCategoryRule(name) ==
    LET lower == Lower(name)
    IN  \/ Contains(lower, K_employee) /\ Contains(lower, K_group)
        \/ Contains(lower, K_employeegroup)
        \/ Contains(lower, K_emp_group)

HireDateRule(name) ==
    LET lower == Lower(name)
    IN  /\ \E k \in {K_join, K_hire, K_start} : Contains(lower, k)
        /\ Contains(lower, K_date)

\* The keyword rule of the role a detector stands for.
RuleOf(fn, name) ==
    CASE fn = "detect_department_column" -> OrgUnitRule(name)
      [] fn = "detect_job_family_column" -> RoleFamilyRule(name)
      [] fn = "detect_employee_group_column" -> EmployeeCategoryRule(name)
      [] fn = "detect_joining_date_column" -> HireDateRule(name)

\* The canonical names of the role a detector stands for, in their listed order.
CanonicalOf(fn) ==
    CASE fn = "detect_department_column" -> <<N_Department, N_OrganizationalUnit>>
      [] fn = "detect_job_family_column" -> <<N_JobFamily>>
      [] fn = "detect_employee_group_column" -> <<N_EmployeeGroup>>
      [] fn = "detect_joining_date_column" -> <<N_JoiningDate>>

Detectors ==
    {"detect_department_column", "detect_job_family_column",
     "detect_employee_group_column", "detect_joining_date_column"}

\* The canonical names of fn that are columns of d, as positions in CanonicalOf(fn).
CanonicalPresent(fn, d) ==
    {i \in 1..Len(CanonicalOf(fn)) : InColumns(CanonicalOf(fn)[i], d)}

DetectorReturned == pc = "returned" /\ call \in Detectors

\* C1: a detector given a table that has a canonical name of its role returns the
\* first canonical name, in listed order, that is a column ('Department' before
\* 'Organizational Unit'), whatever columns satisfying the keyword rule precede it.
C1_ExactNameWins ==
    (DetectorReturned /\ CanonicalPresent(call, df) # {})
        => ret = CanonicalOf(call)[Min(CanonicalPresent(call, df))]

\* C1 witness: 'Department' is returned although 'Organizational Unit' and a column
\* satisfying the keyword rule both come before it in column order.
C1_Witness ==
    /\ DetectorReturned /\ call = "detect_department_column"
    /\ ret = N_Department
    /\ \E i, j, k \in 1..Len(df.columns) :
            /\ i < k /\ j < k
            /\ df.columns[i] = N_OrganizationalUnit
            /\ df.columns[j] # N_OrganizationalUnit /\ OrgUnitRule(df.columns[j])
            /\ df.columns[k] = N_Department

\* C2: a detector given a table with no canonical name of its role returns the
\* first column, in column order, whose name satisfies the role's keyword rule, and
\* None when no column satisfies it; it never returns a column that fails the rule.
C2_FirstKeywordMatch ==
    (DetectorReturned /\ CanonicalPresent(call, df) = {})
        => LET hits == {i \in 1..Len(df.columns) : RuleOf(call, df.columns[i])}
           IN  IF hits = {} THEN ret = None
               ELSE ret = df.columns[Min(hits)] /\ RuleOf(call, ret)

\* C2 witness: the joining-date detector returns the second of two columns that
\* satisfy the rule only after lower-casing, the first column not satisfying it.
C2_Witness ==
    /\ DetectorReturned /\ call = "detect_joining_date_column"
    /\ Len(df.columns) >= 2
    /\ ~HireDateRule(df.columns[1])
    /\ ret = df.columns[2] /\ ret = N_HireDate

-----------------------------------------------------------------------------
(* The aggregator's contract.                                              *)

CountCharts ==
    {"create_employees_by_department", "create_employee_group_split",
     "create_talent_distribution"}

BarCharts == {"create_employees_by_department", "create_talent_distribution"}

Charts == CountCharts \cup {"create_tenure_trend"}

Abs(x) == IF x < 0 THEN -x ELSE x

\* A count chart returned a figure for a column of the table it was given.
CountChartDrawn ==
    /\ pc = "returned" /\ call \in CountCharts
    /\ ret.kind # "None"

\* The cells of the column the chart function was called with.
ArgCells == Column(arg_df, col)

\* The rows of the argument column that hold a value.
ArgNonNull == {i \in 1..Len(ArgCells) : ~IsNull(ArgCells[i])}

RECURSIVE SumPercentage(_)
SumPercentage(rows) ==
    IF Len(rows) = 0 THEN 0 ELSE rows[1].Percentage + SumPercentage(Tail(rows))

\* C4, as stated: the percentages of a count chart drawn for a column with a
\* non-null value sum to within 0.1 of 100.0 (in tenths: within 1 of 1000), each
\* of them in [0, 100].
C4_SumWithinOneTenth ==
    (CountChartDrawn /\ ArgNonNull # {})
        => /\ Abs(SumPercentage(ret.data) - 1000) <= 1
           /\ \A k \in 1..Len(ret.data) : ret.data[k].Percentage \in 0..1000

\* C4, amended: the percentages of a count chart drawn for a column with a non-null
\* value sum to within 0.05 per category of 100.0 (in tenths: twice the distance
\* from 1000 is at most the number of categories), each of them in [0, 100].
C4_SumWithinHalfTenthPerCategory ==
    (CountChartDrawn /\ ArgNonNull # {})
        => /\ 2 * Abs(SumPercentage(ret.data) - 1000) <= Len(ret.data)
           /\ \A k \in 1..Len(ret.data) : ret.data[k].Percentage \in 0..1000

\* C4 witness: six categories of one row each, 16.7 % each, 100.2 % in all.
C4_Witness ==
    /\ CountChartDrawn
    /\ Len(ret.data) = 6
    /\ SumPercentage(ret.data) = 1002

\* C5: a count chart has exactly one row per distinct non-null value of the column,
\* its count the number of rows holding the value and its percentage that count
\* over the number of non-null rows, rounded to the nearest tenth; for a column
\* without a non-null value (or a table without rows) the bar charts return a figure
\* of no rows, write no warning and raise nothing, unless a library call failed.
C5_CountsExcludeNull ==
    /\ CountChartDrawn =>
        /\ {ret.data[k].value : k \in 1..Len(ret.data)} = {ArgCells[i] : i \in ArgNonNull}
        /\ Len(ret.data) = Cardinality({ArgCells[i] : i \in ArgNonNull})
        /\ \A k \in 1..Len(ret.data) :
            /\ ret.data[k].Count =
                    Cardinality({i \in 1..Len(ArgCells) : ArgCells[i] = ret.data[k].value})
            /\ 2 * Abs(ret.data[k].Percentage * Cardinality(ArgNonNull)
                        - 1000 * ret.data[k].Count) <= Cardinality(ArgNonNull)
    /\ ( /\ pc = "returned" /\ call \in BarCharts
         /\ col # None /\ InColumns(col, arg_df)
         /\ failed_libs = {}
         /\ ArgNonNull = {} )
        => ret.kind = "bar" /\ ret.data = <<>> /\ page = <<>> /\ raised = NoError

\* C5 witness: a column with a missing value and two values of different counts,
\* drawn as two rows.
C5_Witness ==
    /\ CountChartDrawn
    /\ \E i \in 1..Len(ArgCells) : IsNull(ArgCells[i])
    /\ Len(ret.data) = 2
    /\ ret.data[1].Count # ret.data[2].Count

\* The calendar year of a cell of a date column, 0 for a cell that is no date: the
\* two dates of DateTexts, a timestamp, and a whole number (a count of nanoseconds
\* since 1970).
CalendarYear(c) ==
    IF c = Str(<<"2", "0", "2", "0", "-", "0", "1", "-", "0", "5">>) THEN 2020
    ELSE IF c = Str(<<"2", "0", "2", "1", "-", "0", "6", "-", "3", "0">>) THEN 2021
    ELSE IF c.t = "dt" THEN c.y
    ELSE IF c.t = "num" THEN EpochYear
    ELSE 0

RECURSIVE SumNewHires(_)
SumNewHires(rows) ==
    IF Len(rows) = 0 THEN 0 ELSE rows[1].NewHires + SumNewHires(Tail(rows))

TrendDrawn ==
    /\ pc = "returned" /\ call = "create_tenure_trend"
    /\ ret.kind = "line"

\* C6: the hiring trend lists only calendar years of rows whose date can be read,
\* counts each such row once under its year (the counts sum to the number of
\* readable rows), is in ascending order of the year, and nothing is raised.
C6_TrendCountsReadableDates ==
    TrendDrawn =>
        /\ raised = NoError
        /\ \A k \in 1..Len(ret.data) :
            /\ ret.data[k].JoinYear # 0
            /\ ret.data[k].NewHires > 0
            /\ ret.data[k].NewHires =
                Cardinality({i \in 1..Len(ArgCells) :
                                CalendarYear(ArgCells[i]) = ret.data[k].JoinYear})
        /\ SumNewHires(ret.data) =
                Cardinality({i \in 1..Len(ArgCells) : CalendarYear(ArgCells[i]) # 0})
        /\ \A j, k \in 1..Len(ret.data) :
                j < k => ret.data[j].JoinYear < ret.data[k].JoinYear

\* C6 witness: a later year before an earlier one and a row that is no date; the
\* trend has the two years in order, one hire each.
C6_Witness ==
    /\ TrendDrawn
    /\ Len(ArgCells) = 3
    /\ CalendarYear(ArgCells[1]) = 2021
    /\ ArgCells[2].t = "str" /\ CalendarYear(ArgCells[2]) = 0
    /\ CalendarYear(ArgCells[3]) = 2020
    /\ Len(ret.data) = 2

\* A chart function was called with a column name that the table lacks.
AbsentColumnCall ==
    /\ pc = "returned" /\ call \in Charts
    /\ col # None /\ ~InColumns(col, arg_df)

\* C8, as stated: a chart function called with a column the table lacks fails with
\* an error its caller can observe.
C8_AbsentColumnRaises == AbsentColumnCall => raised # NoError

\* C8, amended: a chart function called with a column the table lacks raises
\* nothing: it writes one warning, returns None and leaves the table as it was.
C8_AbsentColumnWarnsAndReturnsNone ==
    AbsentColumnCall =>
        /\ raised = NoError
        /\ ret = NoFig
        /\ Len(page) = 1 /\ page[1].w = "warning"
        /\ df = arg_df

\* C8 witness: the hiring trend called on a table of rows with a column it lacks.
C8_Witness ==
    /\ AbsentColumnCall /\ call = "create_tenure_trend"
    /\ Len(arg_df.rows) > 0
    /\ ret = NoFig /\ Len(page) = 1

-----------------------------------------------------------------------------
(* The display's contract.                                                 *)

DisplayReturned == pc = "returned" /\ call = "safe_dataframe_display"

\* Column i of table d holds text only and is of dtype object.
TextColumn(d, i) ==
    /\ d.dtypes[i] = "object"
    /\ \A r \in 1..Len(d.rows) : d.rows[r].cells[i].t = "str"

\* Table e is table d with its columns turned into text, but for the columns whose
\* coercion raised, which are as in d.
CoercedCopyOf(e, d) ==
    /\ e.columns = d.columns
    /\ Len(e.rows) = Len(d.rows)
    /\ \A i \in 1..Len(d.columns) :
        IF Fail("astype", i) \in failed_libs
        THEN /\ e.dtypes[i] = d.dtypes[i]
             /\ \A r \in 1..Len(d.rows) : e.rows[r].cells[i] = d.rows[r].cells[i]
        ELSE TextColumn(e, i)

\* Table e is the first HeadRows rows (all rows, if there are fewer) of table d with
\* its columns turned into text, but for the columns whose coercion raised.
HeadOfCoercedCopyOf(e, d) ==
    /\ e.columns = d.columns
    /\ Len(e.rows) = (IF Len(d.rows) < HeadRows THEN Len(d.rows) ELSE HeadRows)
    /\ \A r \in 1..Len(e.rows) : e.rows[r].idx = d.rows[r].idx
    /\ \A i \in 1..Len(d.columns) :
        IF Fail("astype", i) \in failed_libs
        THEN /\ e.dtypes[i] = d.dtypes[i]
             /\ \A r \in 1..Len(e.rows) : e.rows[r].cells[i] = d.rows[r].cells[i]
        ELSE TextColumn(e, i)

\* C10: safe_dataframe_display raises nothing and leaves its table as it was; if
\* the first st.dataframe succeeds the page shows the original table and nothing
\* else; if it raises, the page shows a warning, one warning per column whose
\* coercion raised, and then either the coerced copy (one retry, when it succeeds)
\* or, when the retry raises too, an error, a notice and the first 5 rows of the
\* coerced copy as text.
C10_DisplayDegradesInOrder ==
    DisplayReturned =>
        /\ raised = NoError
        /\ df = arg_df
        /\ Len(page) >= 1
        /\ Cardinality({k \in 1..Len(page) : page[k].w = "dataframe"}) <= 1
        /\ IF Fail("st.dataframe", 1) \notin failed_libs
           THEN page = <<EvData("dataframe", "df", arg_df)>>
           ELSE LET n == Cardinality({i \in 1..Len(arg_df.columns) :
                                        Fail("astype", i) \in failed_libs})
                IN  /\ \A k \in 1..(n + 1) : page[k].w = "warning"
                    /\ IF Fail("st.dataframe", 2) \notin failed_libs
                       THEN /\ Len(page) = n + 2
                            /\ page[n + 2].w = "dataframe"
                            /\ CoercedCopyOf(page[n + 2].data, arg_df)
                       ELSE /\ Len(page) = n + 4
                            /\ page[n + 2].w = "error"
                            /\ page[n + 3].w = "info"
                            /\ page[n + 4].w = "text"
                            /\ HeadOfCoercedCopyOf(page[n + 4].data, arg_df)

\* C10 witness: both attempts raise and the coercion of one column raises, on a
\* table of more than 5 rows with a missing value: the text shows 5 rows, and the
\* table passed in still holds its missing value and its numbers.
C10_Witness ==
    /\ DisplayReturned
    /\ failed_libs = {Fail("st.dataframe", 1), Fail("astype", 2), Fail("st.dataframe", 2)}
    /\ Len(arg_df.rows) > HeadRows
    /\ \E r \in 1..Len(arg_df.rows) : IsNull(arg_df.rows[r].cells[1])
    /\ page[Len(page)].w = "text" /\ Len(page[Len(page)].data.rows) = HeadRows
    /\ df = arg_df

-----------------------------------------------------------------------------
(* The render pass of main: what the page holds.                           *)

\* The table of the upload.
Uploaded == uploaded_file.content

\* main is in the branch of a loaded table, the detectors have returned.
Rendering == call = "main" /\ df # NoTable /\ pc \notin {"start", "loaded"}

\* The render pass has run to its end.
PassDone == Rendering /\ pc = "done"

Shown(w, about) == \E k \in 1..Len(page) : page[k].w = w /\ page[k].about = about

Plotted(key) == Shown("plotly_chart", key)

\* The table view: the table widget, or the text of the first rows.
TableShown == \E k \in 1..Len(page) : page[k].w \in {"dataframe", "text"}

\* The four chart sections: the function, the key of the plot, the warning of the
\* function, the placeholder of the section, and the column detected for it.
ChartSlots ==
    {[fn |-> "create_employees_by_department", key |-> "dept_overview",
      warning |-> "Error creating department chart",
      placeholder |-> "Department column not detected in the data.",
      column |-> dept_col],
     [fn |-> "create_employee_group_split", key |-> "group_split",
      warning |-> "Error creating employee group chart",
      placeholder |-> "Employee Group column not detected in the data.",
      column |-> emp_group_col],
     [fn |-> "create_talent_distribution", key |-> "job_dist",
      warning |-> "Error creating job family chart",
      placeholder |-> "Job Family column not detected in the data.",
      column |-> job_col],
     [fn |-> "create_tenure_trend", key |-> "tenure_trend",
      warning |-> "Error creating tenure trend chart",
      placeholder |-> "Joining Date column not detected in the data.",
      column |-> joining_date_col]}

\* No column of d has a canonical name of a role or satisfies a role's keyword rule.
NoRoleColumn(d) ==
    \A i \in 1..Len(d.columns) : \A fn \in Detectors :
        /\ ~RuleOf(fn, d.columns[i])
        /\ \A j \in 1..Len(CanonicalOf(fn)) : d.columns[i] # CanonicalOf(fn)[j]

\* C3: for an uploaded table without a column of any role, the four detectors
\* return None and the render pass raises nothing: it makes no
\* filter widget and plots no chart, and at its end the page holds the placeholder
\* of each of the four chart sections, once, and the table view.
C3_NoRoleColumnsDegrade ==
    (Rendering /\ NoRoleColumn(Uploaded)) =>
        /\ raised = NoError /\ pc # "raised"
        /\ dept_col = None /\ job_col = None
        /\ emp_group_col = None /\ joining_date_col = None
        /\ \A k \in 1..Len(page) : page[k].w \notin {"sidebar.multiselect", "plotly_chart"}
        /\ pc = "done" =>
            /\ \A s \in ChartSlots :
                Cardinality({k \in 1..Len(page) :
                    page[k].w = "info" /\ page[k].about = s.placeholder}) = 1
            /\ TableShown

\* C3 witness: a pass over a table of one column of no role, with rows, has ended
\* with the four placeholders and the table view on the page.
C3_Witness ==
    /\ PassDone /\ NoRoleColumn(Uploaded)
    /\ Len(Uploaded.columns) >= 1 /\ Len(Uploaded.rows) >= 2
    /\ \A s \in ChartSlots : Shown("info", s.placeholder)
    /\ TableShown

\* The filters: the column detected for a role and the values selected in it.
RoleFilters ==
    {<<dept_col, selected_depts>>, <<job_col, selected_jobs>>,
     <<emp_group_col, selected_groups>>}

\* The uploaded rows (by position) whose value in the column of each role with a
\* selection is one of the selected values.
KeptRows ==
    {j \in 1..Len(Uploaded.rows) :
        \A f \in RoleFilters :
            f[2] = {} \/ Column(Uploaded, f[1])[j] \in f[2]}

\* The position in the upload of the row with index label i.
UploadedPosition(i) == CHOOSE j \in 1..Len(Uploaded.rows) : Uploaded.rows[j].idx = i

\* The columns whose counts are plotted, by the key of the plot.
CountedColumn(key) ==
    CASE key = "dept_overview" -> dept_col
      [] key = "group_split" -> emp_group_col
      [] key = "job_dist" -> job_col

\* C7: once the detectors have returned, the table of the pass holds exactly the
\* uploaded rows, in their order, whose value in the column of every role with a
\* non-empty selection is selected, with the values they were uploaded with in the
\* role columns; the tile of the total shows their number and every count plotted
\* for a column is the number of those rows with that value.
C7_FiltersAndAcrossOrWithin ==
    Rendering =>
        LET kept == KeptRows
        IN  /\ Len(df.rows) = Cardinality(kept)
            /\ \A k \in 1..Len(df.rows) :
                /\ \E j \in kept : Uploaded.rows[j].idx = df.rows[k].idx
                /\ \A l \in 1..Len(df.rows) : k < l => df.rows[k].idx < df.rows[l].idx
                /\ \A f \in RoleFilters :
                    Truthy(f[1]) => Column(df, f[1])[k]
                                    = Column(Uploaded, f[1])[UploadedPosition(df.rows[k].idx)]
            /\ \A k \in 1..Len(page) :
                /\ (page[k].w = "metric_card" /\ page[k].about = "Total Employees")
                        => page[k].n = Cardinality(kept)
                /\ (page[k].w = "plotly_chart" /\ page[k].about # "tenure_trend")
                        => \A r \in 1..Len(page[k].fig.data) :
                            page[k].fig.data[r].Count =
                                Cardinality({j \in kept :
                                    Column(Uploaded, CountedColumn(page[k].about))[j]
                                        = page[k].fig.data[r].value})

\* C7 witness: departments and job families are both selected, an uploaded row
\* with a selected department is left out for its job family, and the pass has
\* plotted the counts of the job families of the rows that are left.
C7_Witness ==
    /\ PassDone
    /\ selected_depts # {} /\ selected_jobs # {}
    /\ KeptRows # {}
    /\ \E j \in 1..Len(Uploaded.rows) :
        /\ Column(Uploaded, dept_col)[j] \in selected_depts
        /\ Column(Uploaded, job_col)[j] \notin selected_jobs
    /\ Plotted("job_dist") /\ Plotted("dept_overview")

\* C9: no exception leaves a chart function and ends the pass; a chart
\* function whose library call raised has written its warning and nothing is
\* plotted for it; at the end of the pass every section with a column holds either
\* its plot or its warning, the plot if its function met no failure (for the group
\* split: if no library call of it raised and its warning is not there), and the
\* page holds the three metric tiles, the table view and, last, the footer.
C9_ChartFailuresIsolated ==
    Rendering =>
        /\ raised = NoError /\ pc # "raised"
        /\ \A s \in ChartSlots :
            Fail(s.fn, 1) \in failed_libs
                => Shown("warning", s.warning) /\ ~Plotted(s.key)
        /\ pc = "done" =>
            /\ \A s \in ChartSlots :
                Truthy(s.column) =>
                    /\ Plotted(s.key) # Shown("warning", s.warning)
                    /\ (Fail(s.fn, 1) \notin failed_libs
                            /\ s.fn # "create_employee_group_split") => Plotted(s.key)
            /\ Cardinality({k \in 1..Len(page) : page[k].w = "metric_card"}) = 3
            /\ TableShown
            /\ page[Len(page)] = Ev("caption", "footer")

\* C9 witness: the department chart and the tenure trend failed, the group split
\* and the job family chart are plotted, and the pass has reached its footer.
C9_Witness ==
    /\ PassDone
    /\ Fail("create_employees_by_department", 1) \in failed_libs
    /\ Fail("create_tenure_trend", 1) \in failed_libs
    /\ Shown("warning", "Error creating department chart")
    /\ Shown("warning", "Error creating tenure trend chart")
    /\ Plotted("group_split") /\ Plotted("job_dist")
    /\ TableShown
    /\ page[Len(page)].w = "caption"

\* The extension of the name is one that load_data knows, as written.
KnownExtension(name) ==
    \E ext \in {<<".", "c", "s", "v">>, <<".", "x", "l", "s", "x">>, <<".", "x", "l", "s">>} :
        Len(name) >= Len(ext) /\ SubSeq(name, Len(name) - Len(ext) + 1, Len(name)) = ext

\* A file was uploaded and loading it fails: unknown extension or unparsable content.
LoadFailed ==
    /\ call = "main" /\ pc # "start" /\ uploaded_file # NoFile
    /\ ~KnownExtension(uploaded_file.name) \/ ~uploaded_file.parses

\* C11: when the upload has an unknown extension or content that cannot be parsed,
\* load_data raises nothing to main and returns no table after reporting one error;
\* main then detects no column, takes no selection, writes nothing but the notice
\* asking for an upload, and the pass ends there.
C11_LoadFailureHalts ==
    LoadFailed =>
        /\ raised = NoError /\ pc \in {"loaded", "done"}
        /\ df = NoTable
        /\ dept_col = None /\ job_col = None
        /\ emp_group_col = None /\ joining_date_col = None
        /\ selected_depts = {} /\ selected_jobs = {} /\ selected_groups = {}
        /\ ~filters_applied /\ failed_libs = {}
        /\ page[1].w = "error"
        /\ page[1].about = (IF KnownExtension(uploaded_file.name)
                            THEN "Error loading data" ELSE "Unsupported file format")
        /\ IF pc = "loaded" THEN Len(page) = 1
           ELSE /\ Len(page) = 2
                /\ page[2] = Ev("info", "Please upload an HR data file to view the dashboard.")

\* C11 witness: a file named with the upper-case extension the uploader lets
\* through, whose content would parse, has ended the pass with the error and the
\* notice alone on the page.
C11_Witness ==
    /\ LoadFailed /\ pc = "done"
    /\ uploaded_file.parses /\ Len(uploaded_file.content.rows) >= 1
    /\ uploaded_file.name = <<"h", "r", ".", "C", "S", "V">>
    /\ Len(page) = 2 /\ page[1].about = "Unsupported file format"

\* C12: once the detectors have returned, main's table has the columns and dtypes
\* of the pre-processed copy of the upload and each of its rows is a row of that
\* copy, cell for cell, at every step up to the end of the pass, and so has every
\* table that the table view shows as the original.  create_tenure_trend assigns to
\* the table of its caller, so this does not hold of the code.
C12_NoInPlaceMutation ==
    Rendering =>
        LET processed == pre_process(Uploaded).df
        IN  /\ df.columns = processed.columns
            /\ df.dtypes = processed.dtypes
            /\ \A k \in 1..Len(df.rows) :
                \E j \in 1..Len(processed.rows) : processed.rows[j] = df.rows[k]
            /\ \A e \in 1..Len(page) :
                (page[e].w = "dataframe" /\ page[e].about = "df")
                    => /\ page[e].data.columns = processed.columns
                       /\ \A k \in 1..Len(page[e].data.rows) :
                            \E j \in 1..Len(processed.rows) :
                                processed.rows[j] = page[e].data.rows[k]

\* C12 witness: the pass has ended and the table view shows, as the original
\* table, one with a 'Join Year' column that the upload does not have and NaT in
\* the place of an uploaded text of the joining-date column.
C12_Witness ==
    /\ PassDone /\ Truthy(joining_date_col)
    /\ ~InColumns(N_JoinYear, Uploaded)
    /\ \E e \in 1..Len(page) :
        /\ page[e].w = "dataframe" /\ page[e].about = "df"
        /\ InColumns(N_JoinYear, page[e].data)
        /\ \E k \in 1..Len(page[e].data.rows) :
            /\ Column(page[e].data, joining_date_col)[k] = NaT
            /\ Column(Uploaded, joining_date_col)[k].t = "str"

====
